---- MODULE Spec2Model ----
(***************************************************************************)
(* SunPatch (src/src/App.jsx): the solar-panel Orientation Controller      *)
(* (SolarPanelModel) and the Ambient Lighting State (App).                 *)
(*                                                                         *)
(* Numbers.  Angles are integers in milliradians (0.02 rad = 20, 0.05 rad  *)
(* = 50).  The sines and cosines of the demo sweep and of the sky         *)
(* position are integers scaled by Scale (1.0 = 10000).  JavaScript's NaN  *)
(* and Infinity are the                                                    *)
(* reserved values NaN and Infinity, handled as IEEE-754 handles them      *)
(* (arithmetic on NaN is NaN, every comparison with NaN is false).         *)
(*                                                                         *)
(* The cached sun direction is a unit vector with components scaled by     *)
(* Fine (1.0 = 10^8), so that atan2(x, z) is the azimuth to the            *)
(* milliradian up to 0.05 degrees from the zenith and the nadir.           *)
(*                                                                         *)
(* Rotations.  A THREE.Quaternion is <<x, y, z, w>> with components        *)
(* scaled by QScale (1.0 = 30000); setFromEuler, multiply, angleTo, slerp  *)
(* and rotateTowards compute what three.js computes, in fixed point: a     *)
(* result is within about 0.1 milliradian of the double-precision one.     *)
(***************************************************************************)
EXTENDS Integers, Sequences, FiniteSets, TLC

\* ------------------------------------------------------------ bounds
MaxElapsed == 19      \* last clock reading (ticks of 1/TicksPerSecond s)
MaxInstant == 1       \* last wall-clock observation instant
MaxFrames == 2        \* frames rendered in one session
MaxSteadyFrames == 160  \* frames rendered in a steady tracking stretch
MaxFaults == 1        \* non-finite answers of the source in one session

\* ----------------------------------------------------------- numbers
Scale == 10 * 1000
Infinity == 2^30
NaN == 2^30 + 1
Pi == 3142
TwoPi == 2 * Pi - 1
HalfPi == Pi \div 2

IsFinite(v) == v # NaN /\ v # Infinity /\ v # -Infinity
Abs(v) == IF v < 0 THEN -v ELSE v
Max(a, b) == IF a >= b THEN a ELSE b
Min(a, b) == IF a <= b THEN a ELSE b

\* a / b rounded to the nearest integer, b > 0
DivRound(a, b) == IF a >= 0 THEN (2 * a + b) \div (2 * b)
                  ELSE -((2 * (-a) + b) \div (2 * b))

\* IEEE product of two scaled numbers
Mul(a, b) == IF IsFinite(a) /\ IsFinite(b) THEN DivRound(a * b, Scale) ELSE NaN

\* an angle brought into (-Pi, Pi)
WrapAngle(a) == ((a + Pi - 1) % TwoPi) - (Pi - 1)

\* sin on [0, HalfPi], Taylor series to x^9 in fixed point
SinQ(a) ==
  LET X == 10 * a
      x2 == (X * X) \div Scale
      t4 == Scale - x2 \div 72
      t3 == Scale - ((x2 * t4) \div Scale) \div 42
      t2 == Scale - ((x2 * t3) \div Scale) \div 20
      t1 == Scale - ((x2 * t2) \div Scale) \div 6
  IN (X * t1) \div Scale

\* Math.sin: NaN for a non-finite argument
Sin(a) ==
  IF ~IsFinite(a) THEN NaN
  ELSE LET w == WrapAngle(a)
           m == Abs(w)
           r == IF m > HalfPi THEN Pi - m ELSE m
       IN IF w < 0 THEN -SinQ(r) ELSE SinQ(r)

\* Math.cos
Cos(a) == IF ~IsFinite(a) THEN NaN ELSE Sin(a + HalfPi)

RECURSIVE SqrtSearch(_, _, _)
SqrtSearch(n, lo, hi) ==
  IF lo >= hi THEN lo
  ELSE LET mid == (lo + hi + 1) \div 2
       IN IF mid * mid <= n THEN SqrtSearch(n, mid, hi)
          ELSE SqrtSearch(n, lo, mid - 1)

\* THREE.MathUtils.degToRad: thousandths of a degree to milliradians
degToRad(md) ==
  IF ~IsFinite(md) THEN NaN
  ELSE DivRound(md * 17 + DivRound(md * 4533, 10000), 1000)

\* a clamp that lets every value through
clampNone(value, min, max) == value

\* THREE.MathUtils.clamp = Math.max(min, Math.min(max, value)): NaN stays NaN
clamp(value, min, max) ==
  IF value = NaN THEN NaN
  ELSE Max(min, Min(max, value))


\* --------------------------------------------- rotations (THREE.Quaternion)
\* A quaternion is <<x, y, z, w>>, each component scaled by QScale (1.0 =
\* 30000).  Angles between rotations and inside the quaternion arithmetic
\* are in angle units of 1/QScale rad: AngleUnit of them make a milliradian.
AngleUnit == 30
QScale == 1000 * AngleUnit
PiQ == 94248
HalfPiQ == PiQ \div 2
QuarterPiQ == PiQ \div 4

\* the product of two numbers scaled by QScale
MulQ(a, b) == DivRound(a * b, QScale)

\* sin and cos on [0, QuarterPiQ], Taylor series in fixed point
SinT(x) ==
  LET x2 == MulQ(x, x)
      t3 == QScale - DivRound(x2, 42)
      t2 == QScale - DivRound(MulQ(x2, t3), 20)
      t1 == QScale - DivRound(MulQ(x2, t2), 6)
  IN MulQ(x, t1)
CosT(x) ==
  LET x2 == MulQ(x, x)
      t4 == QScale - DivRound(x2, 56)
      t3 == QScale - DivRound(MulQ(x2, t4), 30)
      t2 == QScale - DivRound(MulQ(x2, t3), 12)
  IN QScale - DivRound(MulQ(x2, t2), 2)

\* the element of a singleton set; {e(x) : x \in {v}} computes v once,
\* however often e uses x
The(S) == CHOOSE r \in S : TRUE

\* Math.sin and Math.cos of a finite angle in angle units
SinU(a) ==
  The({LET m == Abs(w)
           r == IF m > HalfPiQ THEN PiQ - m ELSE m
           v == IF r <= QuarterPiQ THEN SinT(r) ELSE CosT(HalfPiQ - r)
       IN IF w < 0 THEN -v ELSE v :
         w \in {((a + PiQ - 1) % (2 * PiQ)) - (PiQ - 1)}})
CosU(a) == SinU(a + HalfPiQ)

\* one Newton step toward the angle th with tan(th) = s / c
AngleStep(c, s, th) ==
  Max(0, Min(HalfPiQ, th + MulQ(s, CosU(th)) - MulQ(c, SinU(th))))

\* Math.atan2(s, c) for c, s >= 0, in angle units
AngleOf(c, s) ==
  The({IF y = 0 THEN 0
       ELSE The({AngleStep(x, y, t3) :
                   t3 \in {AngleStep(x, y, t2) :
                     t2 \in {AngleStep(x, y, t1) :
                       t1 \in {AngleStep(x, y, QuarterPiQ)}}}}) :
         x \in {c}, y \in {s}})

QNaN == <<NaN, NaN, NaN, NaN>>
IsFiniteQuat(q) == IsFinite(q[1]) /\ IsFinite(q[2]) /\ IsFinite(q[3]) /\ IsFinite(q[4])

\* new THREE.Quaternion(): the identity rotation
Identity == <<0, 0, 0, QScale>>

\* Quaternion.setFromEuler(new Euler(pitch, yaw, 0, "XYZ")), the pitch
\* eulerX and the yaw eulerY in milliradians: x = s1 c2, y = c1 s2,
\* z = s1 s2, w = c1 c2 of the half angles
setFromEuler(eulerX, eulerY) ==
  The({IF ~IsFinite(p) \/ ~IsFinite(y) THEN QNaN
       ELSE The({<<MulQ(s1, c2), MulQ(c1, s2), MulQ(s1, s2), MulQ(c1, c2)>> :
                   c1 \in {CosU(p * (AngleUnit \div 2))},
                   s1 \in {SinU(p * (AngleUnit \div 2))},
                   c2 \in {CosU(y * (AngleUnit \div 2))},
                   s2 \in {SinU(y * (AngleUnit \div 2))}}) :
         p \in {eulerX}, y \in {eulerY}})

\* Quaternion.multiply: qa followed by qb (multiplyQuaternions)
multiply(qa, qb) ==
  The({IF ~IsFiniteQuat(a) \/ ~IsFiniteQuat(b) THEN QNaN
       ELSE <<DivRound(a[1] * b[4] + a[4] * b[1] + a[2] * b[3] - a[3] * b[2], QScale),
              DivRound(a[2] * b[4] + a[4] * b[2] + a[3] * b[1] - a[1] * b[3], QScale),
              DivRound(a[3] * b[4] + a[4] * b[3] + a[1] * b[2] - a[2] * b[1], QScale),
              DivRound(a[4] * b[4] - a[1] * b[1] - a[2] * b[2] - a[3] * b[3], QScale)>> :
         a \in {qa}, b \in {qb}})

\* Quaternion.dot
dot(a, b) == DivRound(a[1] * b[1] + a[2] * b[2] + a[3] * b[3] + a[4] * b[4], QScale)

\* the sine of half the angle between two finite rotations: the length of the
\* vector part of conjugate(a) * b
SinHalfAngle(a, b) ==
  The({SqrtSearch(vx * vx + vy * vy + vz * vz, 0, (3 * QScale) \div 2) :
         vx \in {DivRound(a[4] * b[1] - a[1] * b[4] - a[2] * b[3] + a[3] * b[2], QScale)},
         vy \in {DivRound(a[4] * b[2] - a[2] * b[4] - a[3] * b[1] + a[1] * b[3], QScale)},
         vz \in {DivRound(a[4] * b[3] - a[3] * b[4] - a[1] * b[2] + a[2] * b[1], QScale)}})

\* half the angle between two finite rotations, in 0..HalfPiQ
HalfAngle(a, b) == AngleOf(Abs(dot(a, b)), SinHalfAngle(a, b))

\* Quaternion.angleTo = 2 * Math.acos(Math.abs(clamp(dot, -1, 1))), in angle
\* units, in 0..PiQ
angleTo(qa, qb) ==
  The({IF ~IsFiniteQuat(a) \/ ~IsFiniteQuat(b) THEN NaN
       ELSE 2 * HalfAngle(a, b) :
         a \in {qa}, b \in {qb}})

\* the arc of slerp between finite rotations a and c with a . c >= 0, half
\* the angle th apart: a sin((1 - t) th) / sin(th) + c sin(t th) / sin(th)
SlerpArc(a, c, th, num, den) ==
  IF th = 0 \/ SinU(th) = 0 THEN a
  ELSE The({<<MulQ(a[1], ra) + MulQ(c[1], rb), MulQ(a[2], ra) + MulQ(c[2], rb),
              MulQ(a[3], ra) + MulQ(c[3], rb), MulQ(a[4], ra) + MulQ(c[4], rb)>> :
              ra \in {DivRound(SinU(th - DivRound(th * num, den)) * QScale, SinU(th))},
              rb \in {DivRound(SinU(DivRound(th * num, den)) * QScale, SinU(th))}})

\* Quaternion.slerp(qb, t), t = num / den in [0, 1]: t = 0 keeps this, t = 1
\* copies qb, otherwise qb is negated when the dot product is negative
slerp(qa, qb, num, den) ==
  The({IF n = 0 THEN a
       ELSE IF n = d THEN b
       ELSE IF ~IsFiniteQuat(a) \/ ~IsFiniteQuat(b) \/ ~IsFinite(n) THEN QNaN
       ELSE The({The({SlerpArc(a, c, th, n, d) : th \in {HalfAngle(a, c)}}) :
                   c \in {IF dot(a, b) < 0 THEN <<-b[1], -b[2], -b[3], -b[4]>> ELSE b}}) :
         a \in {qa}, b \in {qb}, n \in {num}, d \in {den}})

\* a rotateTowards that never takes the last, partial step
rotateTowardsNoLanding(q, target, step) ==
  The({The({IF angle = 0 THEN a
            ELSE IF angle = NaN THEN QNaN
            ELSE IF step * AngleUnit >= angle THEN a
            ELSE slerp(a, b, step * AngleUnit, angle) :
              angle \in {angleTo(a, b)}}) :
         a \in {q}, b \in {target}})

\* a rotateTowards that jumps to the target whatever the step
rotateTowardsSnap(q, target, step) == target

\* a rotateTowards that slews three times the step
rotateTowardsFast(q, target, step) ==
  The({The({IF angle = 0 THEN a
            ELSE IF angle = NaN THEN QNaN
            ELSE IF 3 * step * AngleUnit >= angle THEN b
            ELSE slerp(a, b, 3 * step * AngleUnit, angle) :
              angle \in {angleTo(a, b)}}) :
         a \in {q}, b \in {target}})

\* Quaternion.rotateTowards(q, step), step in milliradians:
\*   angle = this.angleTo(q); if (angle === 0) return this;
\*   t = Math.min(1, step / angle); this.slerp(q, t)
rotateTowards(q, target, step) ==
  The({The({IF angle = 0 THEN a
            ELSE IF angle = NaN THEN slerp(a, b, NaN, 1)
            ELSE IF step * AngleUnit >= angle THEN slerp(a, b, 1, 1)
            ELSE slerp(a, b, step * AngleUnit, angle) :
              angle \in {angleTo(a, b)}}) :
         a \in {q}, b \in {target}})

\* ------------------------------------------------- THREE.Vector3 (sunDir)
\* The components of sunDir are scaled by Fine (1.0 = 10^8): next to the
\* zenith and the nadir x and z are of the order 10^-4 and the yaw is their
\* ratio.  A product of two such numbers is taken in two limbs of Limb.
Limb == 10 * 1000
Fine == Limb * Limb
PiF == 314159265
HalfPiF == PiF \div 2
QuarterPiF == PiF \div 4

\* the product of two non-negative numbers scaled by Fine, rounded
MulLimbs(a, b) ==
  The({ah * bh + ((ah * bl + al * bh) + (al * bl + Fine \div 2) \div Limb) \div Limb :
         ah \in {a \div Limb}, al \in {a % Limb}, bh \in {b \div Limb}, bl \in {b % Limb}})

\* the product of two finite numbers scaled by Fine
MulF(a, b) ==
  The({IF (x < 0) = (y < 0) THEN MulLimbs(Abs(x), Abs(y)) ELSE -MulLimbs(Abs(x), Abs(y)) :
         x \in {a}, y \in {b}})

RECURSIVE DivDigits(_, _, _, _)
\* n more decimal digits of the quotient q, remainder r, by b; then rounded
DivDigits(q, r, b, n) ==
  IF n = 0 THEN (IF 2 * r >= b THEN q + 1 ELSE q)
  ELSE DivDigits(10 * q + (10 * r) \div b, (10 * r) % b, b, n - 1)

\* the quotient of two finite numbers scaled by Fine, b > 0
DivF(a, b) ==
  The({IF x < 0 THEN -DivDigits((-x) \div y, (-x) % y, y, 8)
       ELSE DivDigits(x \div y, x % y, y, 8) :
         x \in {a}, y \in {b}})

RECURSIVE SqrtNewton(_, _, _)
\* Newton's iteration for the square root of n > 0 from r, at most k steps,
\* all scaled by Fine
SqrtNewton(n, r, k) ==
  The({IF k = 0 \/ Abs(next - r) <= 1 THEN next ELSE SqrtNewton(n, next, k - 1) :
         next \in {(r + DivF(n, r)) \div 2}})

\* Math.sqrt of a number scaled by Fine
SqrtF(n) == IF n = 0 THEN 0 ELSE SqrtNewton(n, Fine, 40)

\* sin and cos on [0, QuarterPiF], Taylor series
SinSeries(x) ==
  The({The({The({The({MulF(x, Fine - MulF(x2, t2) \div 6) :
                        t2 \in {Fine - MulF(x2, t3) \div 20}}) :
                   t3 \in {Fine - MulF(x2, t4) \div 42}}) :
              t4 \in {Fine - x2 \div 72}}) :
         x2 \in {MulF(x, x)}})
CosSeries(x) ==
  The({The({The({The({Fine - MulF(x2, t2) \div 2 :
                        t2 \in {Fine - MulF(x2, t3) \div 12}}) :
                   t3 \in {Fine - MulF(x2, t4) \div 30}}) :
              t4 \in {Fine - MulF(x2, Fine - x2 \div 90) \div 56}}) :
         x2 \in {MulF(x, x)}})

\* the sine of a finite angle scaled by Fine
SinWrapped(a) ==
  The({The({The({IF w < 0 THEN -v ELSE v :
                   v \in {IF r <= QuarterPiF THEN SinSeries(r) ELSE CosSeries(HalfPiF - r)}}) :
              r \in {IF Abs(w) > HalfPiF THEN PiF - Abs(w) ELSE Abs(w)}}) :
         w \in {((a + PiF - 1) % (2 * PiF)) - (PiF - 1)}})

\* Math.sin and Math.cos of an angle in milliradians, scaled by Fine
SinF(a) == IF ~IsFinite(a) THEN NaN ELSE SinWrapped(a * (Fine \div 1000))
CosF(a) == IF ~IsFinite(a) THEN NaN ELSE SinWrapped(a * (Fine \div 1000) + HalfPiF)

\* the IEEE product of two numbers scaled by Fine
MulN(a, b) ==
  The({IF IsFinite(x) /\ IsFinite(y) THEN MulF(x, y) ELSE NaN : x \in {a}, y \in {b}})

\* Vector3.length()
length(v) ==
  IF ~IsFinite(v[1]) \/ ~IsFinite(v[2]) \/ ~IsFinite(v[3]) THEN NaN
  ELSE SqrtF(MulF(v[1], v[1]) + MulF(v[2], v[2]) + MulF(v[3], v[3]))

\* Vector3.normalize(): divideScalar(length() || 1)
normalize(vec) ==
  The({The({The({<<IF IsFinite(v[1]) THEN DivF(v[1], d) ELSE NaN,
                   IF IsFinite(v[2]) THEN DivF(v[2], d) ELSE NaN,
                   IF IsFinite(v[3]) THEN DivF(v[3], d) ELSE NaN>> :
                   d \in {IF len = NaN \/ len = 0 THEN Fine ELSE len}}) :
              len \in {length(v)}}) :
         v \in {vec}})

\* the divisor that brings the magnitude m within QScale
Shrink(m) == (m \div QScale) + 1

\* two finite numbers of one scale, not both 0, brought to a scale where
\* the larger magnitude is at most QScale
ToQScale(a, b) ==
  The({IF m > QScale THEN <<DivRound(a, Shrink(m)), DivRound(b, Shrink(m))>>
       ELSE <<DivRound(a * QScale, m), DivRound(b * QScale, m)>> :
         m \in {Max(Abs(a), Abs(b))}})

\* Math.hypot of two numbers of one scale, in that scale
Hypot(a, b) ==
  The({IF ~IsFinite(x) \/ ~IsFinite(y) THEN NaN
       ELSE IF x = 0 /\ y = 0 THEN 0
       ELSE The({IF m > QScale THEN h * Shrink(m) ELSE (m * h + QScale \div 2) \div QScale :
                   m \in {Max(Abs(x), Abs(y))},
                   h \in {The({SqrtSearch(p[1] * p[1] + p[2] * p[2], 0, (3 * QScale) \div 2) :
                                 p \in {ToQScale(x, y)}})}}) :
         x \in {a}, y \in {b}})

\* Math.atan2(y, x) of two numbers of one scale, in angle units, for x, y
\* not both 0: the angle of the unit vector along (|x|, |y|), by quadrant
AngleOfVector(y, x) ==
  The({The({The({IF x >= 0 THEN th ELSE PiQ - th :
                   th \in {AngleOf(DivRound(Abs(p[2]) * QScale, h),
                                   DivRound(Abs(p[1]) * QScale, h))}}) :
              h \in {SqrtSearch(p[1] * p[1] + p[2] * p[2], 0, (3 * QScale) \div 2)}}) :
         p \in {ToQScale(y, x)}})

\* Math.atan2(y, x), in milliradians
Atan2(b, a) ==
  The({IF ~IsFinite(y) \/ ~IsFinite(x) THEN NaN
       ELSE IF x = 0 /\ y = 0 THEN 0
       ELSE IF y >= 0 THEN DivRound(AngleOfVector(y, x), AngleUnit)
       ELSE -DivRound(AngleOfVector(y, x), AngleUnit) :
         y \in {b}, x \in {a}})

\* ------------------------------------------------------- the environment
\* useBrowserLocation's default location, in 1/10000 degree
DefaultLoc == [lat |-> 190760, lon |-> 728777]
\* a position the Geolocation Provider may report
OtherLoc == [lat |-> 515074, lon |-> -1278]
Fixes == {DefaultLoc, OtherLoc}

\* observations <<azimuth, altitude>> of the sun-position source: the solar noon
\* of the specification's scenario, a sun just above the horizon, a night sun
\* behind the yaw travel, a sun above the pitch travel
Samples == << <<0, 1100>>, <<12, 15>>, <<-3100, -300>>, <<1200, 1300>> >>

\* SunCalc.getPosition(new Date(), lat, lon): a pure function of the instant
\* and the location
SunCalcGetPosition(date, loc) ==
  LET shift == IF loc = DefaultLoc THEN 0 ELSE 2
      a == Samples[((date + shift) % Len(Samples)) + 1]
  IN [azimuth |-> a[1], altitude |-> a[2]]

\* what a faulty sun-position source may return
FaultyAngles ==
  {[azimuth |-> n, altitude |-> 1100] : n \in {NaN, -Infinity}}
    \cup {[azimuth |-> 0, altitude |-> n] : n \in {NaN, Infinity}}
    \cup {[azimuth |-> NaN, altitude |-> -300]}

\* the GLB either holds a sub-object named "solpanel", with its own rest pose,
\* or does not, and the clone's root (at the identity) is rotated instead
SolpanelRest == setFromEuler(-300, 150)
RestPose(found) == IF found THEN SolpanelRest ELSE Identity

\* state.clock.getElapsedTime() is read in ticks of 1 / TicksPerSecond seconds
TicksPerSecond == 2
ClockSteps == {3, 8 * TicksPerSecond}

\* ----------------------------------------------------- SolarPanelModel
\* LIMITS
yawMin == degToRad(-170 * 1000)
yawMax == degToRad(170 * 1000)
pitchMin == degToRad(-5 * 1000)
pitchMax == degToRad(65 * 1000)

\* rotateTowards(qFinal, 0.02)
MaxStep == 20

\* update: the unit vector of the sun from the source's angles
evaluateSunDirection(angles) ==
  The({normalize(<<MulN(SinF(angles.azimuth), cosAlt),
                   SinF(angles.altitude),
                   MulN(CosF(angles.azimuth), cosAlt)>>) :
         cosAlt \in {CosF(angles.altitude)}})

\* useFrame, spin branch
T == 8
pitchDegMin == 8
pitchDegMax == 55

\* t * w, w = (Math.PI * 2) / T, for t in ticks
DemoPhase(t) == (t * TwoPi) \div (T * TicksPerSecond)
\* t * w * 0.35
DemoYawPhase(t) == (t * TwoPi * 35) \div (T * TicksPerSecond * 100)

\* a pitch oscillation at the yaw's frequency
DemoPitchSlow(t) ==
  degToRad(pitchDegMin * 1000
           + ((pitchDegMax - pitchDegMin) * (Sin(DemoYawPhase(t)) + Scale)) \div 20)

\* s = (sin(t * w) + 1) / 2; pitch = degToRad(pitchDegMin + (pitchDegMax - pitchDegMin) * s)
DemoPitch(t) ==
  degToRad(pitchDegMin * 1000
           + ((pitchDegMax - pitchDegMin) * (Sin(DemoPhase(t)) + Scale)) \div 20)

\* yaw = degToRad(sin(t * w * 0.35) * 30)
DemoYaw(t) == degToRad(Sin(DemoYawPhase(t)) * 3)

\* useFrame, tracking branch
yawTarget(dir) == Atan2(dir[1], dir[3])
pitchTarget(dir) == Atan2(dir[2], Hypot(dir[1], dir[3]))
\* dir.y < 0 (false for NaN)
IsNight(dir) == dir[2] # NaN /\ dir[2] < 0

TrackingYaw(dir) == clamp(yawTarget(dir), yawMin, yawMax)

\* a pitch that follows the geometry at night too
TrackingPitchNoStow(dir) == clamp(pitchTarget(dir), pitchMin, pitchMax)

TrackingPitch(dir) ==
  IF IsNight(dir)
  THEN clamp(degToRad(5 * 1000), pitchMin, pitchMax)
  ELSE clamp(pitchTarget(dir), pitchMin, pitchMax)

\* qFinal = baseQuat * setFromEuler(Euler(pitch, yaw, 0, "XYZ"))
QFinal(base, eulerX, eulerY) == multiply(base, setFromEuler(eulerX, eulerY))

\* every answer the sun-position source gives, with the direction update()
\* caches for it and the yaw and pitch a tracking frame derives from that
\* direction, each computed once
SourceAnswers ==
  {SunCalcGetPosition(i, l) : i \in 0 .. Len(Samples) - 1, l \in Fixes} \cup FaultyAngles
CachedDirections == {<<a, evaluateSunDirection(a)>> : a \in SourceAnswers}
KnownDirections == {p[2] : p \in CachedDirections} \cup {<<0, Fine, 0>>}
CachedTargets == {<<d, TrackingPitch(d), TrackingYaw(d)>> : d \in KnownDirections}

\* evaluateSunDirection(a) of an answer a of the source, looked up
SunDirectionOf(a) == (CHOOSE p \in CachedDirections : p[1] = a)[2]

\* TrackingPitch(d) and TrackingYaw(d) of a direction d that sunDir.current
\* can hold, looked up
PitchOf(d) == (CHOOSE p \in CachedTargets : p[1] = d)[2]
YawOf(d) == (CHOOSE p \in CachedTargets : p[1] = d)[3]

\* the orientations baseQuat.current can hold, and on each of them the demo
\* orientation of every clock reading a frame of a session may see and the
\* tracking target of every known direction, each computed once
BasePoses == {Identity, SolpanelRest}
DemoTimes == 0 .. MaxElapsed + 8 * TicksPerSecond
DemoOrientations ==
  {<<b, t, QFinal(b, DemoPitch(t), DemoYaw(t))>> : b \in BasePoses, t \in DemoTimes}
TrackingOrientations ==
  {<<b, p[1], QFinal(b, p[2], p[3])>> : b \in BasePoses, p \in CachedTargets}

\* qFinal of the spin branch at elapsed time t
DemoOrientationOf(base, t) ==
  (CHOOSE p \in DemoOrientations : p[1] = base /\ p[2] = t)[3]

\* qFinal of the tracking branch for the cached direction d
TargetOf(base, d) ==
  (CHOOSE p \in TrackingOrientations : p[1] = base /\ p[2] = d)[3]

\* ------------------------------------------------------------------ App
\* a day test with the threshold on the wrong side of the horizon
IsDayLow(altitude) == altitude # NaN /\ altitude > -500

\* isDay = altitude > 0.05 (false for NaN, true for Infinity)
IsDay(altitude) == altitude # NaN /\ altitude > 50

DayPreset == [bgColor |-> "#b8d0ff", envPreset |-> "sunset",
              sunLightIntensity |-> 18, hemiIntensity |-> 35]
NightPreset == [bgColor |-> "#05070d", envPreset |-> "night",
                sunLightIntensity |-> 5, hemiIntensity |-> 15]
\* the useState initial values (intensities in 1/10 and 1/100)
InitialLighting == [bgColor |-> "#0b0f1a", envPreset |-> "sunset",
                    sunLightIntensity |-> 18, hemiIntensity |-> 35]

\* update: skyPos at radius r = 100 along the sun's direction
SkyPos(angles) ==
  LET r == 100
      x == Mul(Sin(angles.azimuth), Cos(angles.altitude))
      y == Sin(angles.altitude)
      z == Mul(Cos(angles.azimuth), Cos(angles.altitude))
  IN IF IsFinite(x) /\ IsFinite(y) /\ IsFinite(z) THEN <<x * r, y * r, z * r>>
     ELSE <<IF IsFinite(x) THEN x * r ELSE NaN,
            IF IsFinite(y) THEN y * r ELSE NaN,
            IF IsFinite(z) THEN z * r ELSE NaN>>

\* an update whose night branch sets the tone and the environment only
LightingPartial(angles) ==
  IF IsDay(angles.altitude) THEN DayPreset
  ELSE [DayPreset EXCEPT !.bgColor = NightPreset.bgColor,
                         !.envPreset = NightPreset.envPreset]

\* update: the preset chosen for an altitude
Lighting(angles) == IF IsDay(angles.altitude) THEN DayPreset ELSE NightPreset

\* ---------------------------------------------------------------- timers
\* setInterval(update, 30000) with update closed over loc; each effect's
\* handles are numbered in the order the effect asked for them and kept in
\* the effect's own set, so a handle of one effect never meets the other's
setInterval(timers, id, loc) == timers \cup {[id |-> id, loc |-> loc]}

\* a cleanup that forgets to cancel
clearIntervalNoop(timers, id) == timers

\* clearInterval(id)
clearInterval(timers, id) == {tm \in timers : tm.id # id}

\* ------------------------------------------------------------- the state
VARIABLES
  app,           \* App: "rendered" (effects pending), "mounted", "unmounted"
  panel,         \* SolarPanelModel, in the Canvas's own root: "suspended" (useGLTF
                 \* loading), "rendered", "mounted", "unmounted" (the root is gone)
  geolocation,   \* whether navigator.geolocation exists
  hasSolpanel,   \* whether the loaded geometry holds an object named "solpanel"
  mode,          \* App's mode state: "spin" (Demo) or "sun" (Tracking)
  locApp,        \* App's useBrowserLocation state
  locPanel,      \* SolarPanelModel's useBrowserLocation state
  geoApp,        \* App's getCurrentPosition request: "idle", "pending", "done"
  geoPanel,      \* SolarPanelModel's getCurrentPosition request
  timersApp,     \* the intervals armed by App's update effect
  timersPanel,   \* the intervals armed by SolarPanelModel's update effect
  idApp,         \* the handle the cleanup of App's update effect holds (0: none)
  idPanel,       \* the handle the cleanup of SolarPanelModel's update effect holds
  instant,       \* new Date(): the wall-clock instant of the next observation
  elapsed,       \* state.clock.getElapsedTime() as the last frame read it, in ticks
  sunDir,        \* sunDir.current
  baseQuat,      \* baseQuat.current
  panelRef,      \* panelRef.current: "undefined", "solpanel" or "root"
  quaternion,    \* the quaternion of the object panelRef.current resolves to
  skyPos, bgColor, envPreset, sunLightIntensity, hemiIntensity,   \* App's lighting state
  op,            \* what ran last: "frame_spin", "frame_sun", or "other"
  nFrames,       \* frames rendered so far
  yaw, pitch,    \* useFrame's yaw and pitch of the last frame
  isNight,       \* useFrame's isNight of the last frame
  qFinal,        \* useFrame's qFinal of the last frame
  qPrev,         \* the live orientation before the last handler ran
  tFrame,        \* useFrame's t of the last frame
  lastFrame,     \* the branch of the last frame that wrote: "none", "spin", "sun"
  prevFrame,     \* the branch of the frame that wrote before it
  qDemo,         \* the orientation the last spin frame wrote
  obsPanel,      \* the observation sunDir was computed from
  obsApp,        \* the observation the lighting state was computed from
  sceneBackground,  \* scene.background: "none" until the Canvas is created
  faults         \* non-finite answers the sun-position source has given

env == <<geolocation, hasSolpanel>>
geo == <<locApp, locPanel, geoApp, geoPanel>>
timerVars == <<timersApp, timersPanel, idApp, idPanel>>
lightingVars == <<skyPos, bgColor, envPreset, sunLightIntensity, hemiIntensity, obsApp>>
frameVars == <<yaw, pitch, isNight, qFinal, tFrame>>
vars == <<app, panel, env, faults, sceneBackground, mode, geo, timerVars, instant, elapsed,
          sunDir, baseQuat, panelRef, quaternion, lightingVars, op, nFrames, frameVars, qPrev,
          lastFrame, prevFrame, qDemo, obsPanel>>

NoObs == [loc |-> DefaultLoc, instant |-> -1, angles |-> [azimuth |-> 0, altitude |-> 0]]
Obs(loc, i, a) == [loc |-> loc, instant |-> i, angles |-> a]

\* a hook that asks for a position without testing that a provider exists
getCurrentPositionUnguarded(hasProvider) == "pending"

\* useBrowserLocation's effect: if (!navigator.geolocation) return; otherwise
\* one getCurrentPosition request is pending
getCurrentPosition(hasProvider) == IF hasProvider THEN "pending" ELSE "idle"

\* a handler that is no frame: it has no frame locals, and leaves the orientation
NoFrame ==
  /\ op' = "other"
  /\ yaw' = 0 /\ pitch' = 0 /\ isNight' = FALSE /\ qFinal' = Identity /\ tFrame' = 0
  /\ qPrev' = quaternion
  /\ UNCHANGED <<quaternion, nFrames, lastFrame, prevFrame, qDemo>>

Init ==
  /\ app = "rendered" /\ panel = "suspended"
  /\ geolocation \in BOOLEAN /\ hasSolpanel \in BOOLEAN
  /\ mode = "spin"
  /\ locApp = DefaultLoc /\ locPanel = DefaultLoc
  /\ geoApp = "idle" /\ geoPanel = "idle"
  /\ timersApp = {} /\ timersPanel = {} /\ idApp = 0 /\ idPanel = 0
  /\ instant = 0 /\ elapsed = 0
  /\ sunDir = <<0, Fine, 0>>
  /\ baseQuat = Identity
  /\ panelRef = "undefined"
  /\ quaternion = RestPose(hasSolpanel)
  /\ skyPos = <<10 * Scale, 8 * Scale, -6 * Scale>>
  /\ bgColor = InitialLighting.bgColor /\ envPreset = InitialLighting.envPreset
  /\ sunLightIntensity = InitialLighting.sunLightIntensity
  /\ hemiIntensity = InitialLighting.hemiIntensity
  /\ op = "other" /\ nFrames = 0
  /\ yaw = 0 /\ pitch = 0 /\ isNight = FALSE /\ qFinal = Identity /\ tFrame = 0
  /\ qPrev = RestPose(hasSolpanel)
  /\ lastFrame = "none" /\ prevFrame = "none" /\ qDemo = Identity
  /\ obsPanel = NoObs /\ obsApp = NoObs
  /\ sceneBackground = "none"
  /\ faults = 0

\* ------------------------------------------------------------ App's effects
\* App's update: skyPos and the four preset fields, set together
AppUpdate(loc, angles) ==
  /\ skyPos' = SkyPos(angles)
  /\ bgColor' = Lighting(angles).bgColor
  /\ envPreset' = Lighting(angles).envPreset
  /\ sunLightIntensity' = Lighting(angles).sunLightIntensity
  /\ hemiIntensity' = Lighting(angles).hemiIntensity
  /\ obsApp' = Obs(loc, instant, angles)

\* App mounts: useBrowserLocation's effect asks for a position once; the
\* lighting effect runs update() with the source's answer a and arms its
\* interval
AppMount(a) ==
  /\ app = "rendered"
  /\ app' = "mounted"
  /\ geoApp' = getCurrentPosition(geolocation)
  /\ AppUpdate(locApp, a)
  /\ timersApp' = setInterval(timersApp, idApp + 1, locApp)
  /\ idApp' = idApp + 1
  /\ NoFrame
  /\ UNCHANGED <<panel, env, sceneBackground, mode, locApp, locPanel, geoPanel,
                 timersPanel, idPanel, instant, elapsed, sunDir, baseQuat, panelRef,
                 obsPanel>>

AppEffects == AppMount(SunCalcGetPosition(instant, locApp)) /\ UNCHANGED faults

\* App's interval tm fires: update() with the location its closure holds
AppTick(tm, a) ==
  /\ tm \in timersApp
  /\ AppUpdate(tm.loc, a)
  /\ NoFrame
  /\ UNCHANGED <<app, panel, env, sceneBackground, mode, geo, timerVars, instant,
                 elapsed, sunDir, baseQuat, panelRef, obsPanel>>

AppTimerTick ==
  /\ \E tm \in timersApp : AppTick(tm, SunCalcGetPosition(instant, tm.loc))
  /\ UNCHANGED faults

\* App's getCurrentPosition succeeds: (pos) => setLoc({lat, lon}), and no
\* more; a hook whose component is gone keeps no state
AppGeoSuccess ==
  /\ geoApp = "pending"
  /\ geoApp' = "done"
  /\ \E pos \in Fixes : locApp' = IF app = "mounted" THEN pos ELSE locApp
  /\ NoFrame
  /\ UNCHANGED <<faults, app, panel, env, sceneBackground, mode, locPanel, geoPanel,
                 timerVars, instant, elapsed, sunDir, baseQuat, panelRef, lightingVars,
                 obsPanel>>

\* the armed interval was set by a run of the lighting effect with another
\* lat or lon than App now renders with
AppDepsChanged == \E tm \in timersApp : tm.id = idApp /\ tm.loc # locApp

\* after the render that follows setLoc, the lighting effect's cleanup
\* (clearInterval(id)) and then the effect again: update() with the source's
\* answer a, setInterval
AppRerun(a) ==
  /\ app = "mounted" /\ AppDepsChanged
  /\ AppUpdate(locApp, a)
  /\ timersApp' = setInterval(clearInterval(timersApp, idApp), idApp + 1, locApp)
  /\ idApp' = idApp + 1
  /\ NoFrame
  /\ UNCHANGED <<app, panel, env, sceneBackground, mode, geo, timersPanel, idPanel,
                 instant, elapsed, sunDir, baseQuat, panelRef, obsPanel>>

AppLocationEffects == AppRerun(SunCalcGetPosition(instant, locApp)) /\ UNCHANGED faults

\* App's getCurrentPosition fails or times out: () => {}
AppGeoError ==
  /\ geoApp = "pending"
  /\ geoApp' = "done"
  /\ NoFrame
  /\ UNCHANGED <<faults, app, panel, env, sceneBackground, mode, locApp, locPanel, geoPanel,
                 timerVars, instant, elapsed, sunDir, baseQuat, panelRef, lightingVars,
                 obsPanel>>

\* Canvas onCreated, once: scene.background = new THREE.Color(bgColor), with
\* the bgColor of App's render at that moment; that is the initial tone when
\* the Canvas is created before App's lighting effect has run.  The source
\* does not order onCreated against SolarPanelModel's render, effects and
\* frames, so every order is a behaviour
CanvasCreated ==
  /\ app \in {"rendered", "mounted"} /\ sceneBackground = "none"
  /\ sceneBackground' = bgColor
  /\ NoFrame
  /\ UNCHANGED <<faults, app, panel, env, mode, geo, timerVars, instant, elapsed, sunDir,
                 baseQuat, panelRef, lightingVars, obsPanel>>

\* the mode toggle's onClick: setMode(mode === "sun" ? "spin" : "sun")
ToggleMode ==
  /\ app = "mounted"
  /\ mode' = IF mode = "sun" THEN "spin" ELSE "sun"
  /\ NoFrame
  /\ UNCHANGED <<faults, app, panel, env, sceneBackground, geo, timerVars, instant, elapsed,
                 sunDir, baseQuat, panelRef, lightingVars, obsPanel>>

\* ------------------------------------------------ SolarPanelModel's effects
\* a setup effect without the fallback to the geometry root
getObjectByNameOnly(found) == IF found THEN "solpanel" ELSE "undefined"

\* panelRef.current = root.getObjectByName("solpanel") || root
getObjectByNameOrRoot(found) == IF found THEN "solpanel" ELSE "root"

\* update: sunDir.current.set(x, y, z).normalize()
PanelUpdate(loc, angles) ==
  /\ sunDir' = SunDirectionOf(angles)
  /\ obsPanel' = Obs(loc, instant, angles)

\* useGLTF resolves (the geometry is preloaded) and SolarPanelModel renders
\* in the Canvas's root, before or after onCreated and App's effects; its
\* own effects have not run
PanelRender ==
  /\ app \in {"rendered", "mounted"} /\ panel = "suspended"
  /\ panel' = "rendered"
  /\ NoFrame
  /\ UNCHANGED <<faults, app, env, sceneBackground, mode, geo, timerVars, instant, elapsed,
                 sunDir, baseQuat, panelRef, lightingVars, obsPanel>>

\* SolarPanelModel's effects run, before or after onCreated and App's
\* effects: the position request, the setup effect (panelRef, baseQuat), the
\* update effect (update() with the source's answer a, setInterval)
PanelMount(a) ==
  /\ panel = "rendered"
  /\ panel' = "mounted"
  /\ geoPanel' = getCurrentPosition(geolocation)
  /\ panelRef' = getObjectByNameOrRoot(hasSolpanel)
  /\ baseQuat' = quaternion
  /\ PanelUpdate(locPanel, a)
  /\ timersPanel' = setInterval(timersPanel, idPanel + 1, locPanel)
  /\ idPanel' = idPanel + 1
  /\ NoFrame
  /\ UNCHANGED <<app, env, sceneBackground, mode, locApp, locPanel, geoApp, timersApp,
                 idApp, instant, elapsed, lightingVars>>

PanelEffects == PanelMount(SunCalcGetPosition(instant, locPanel)) /\ UNCHANGED faults

\* SolarPanelModel's interval tm fires: update() with the location its
\* closure holds
PanelTick(tm, a) ==
  /\ tm \in timersPanel
  /\ PanelUpdate(tm.loc, a)
  /\ NoFrame
  /\ UNCHANGED <<app, panel, env, sceneBackground, mode, geo, timerVars, instant,
                 elapsed, baseQuat, panelRef, lightingVars>>

PanelTimerTick ==
  /\ \E tm \in timersPanel : PanelTick(tm, SunCalcGetPosition(instant, tm.loc))
  /\ UNCHANGED faults

\* a setup effect that runs again with the update effect and copies the
\* live orientation
baseQuatRecaptured(base, q) == q

\* the setup effect's deps are [root]: the re-render a location change causes
\* does not run it again, and baseQuat.current keeps its value
baseQuatOnLocationChange(base, q) == base

\* SolarPanelModel's getCurrentPosition succeeds: (pos) => setLoc({lat, lon}),
\* and no more
PanelGeoSuccess ==
  /\ geoPanel = "pending"
  /\ geoPanel' = "done"
  /\ \E pos \in Fixes : locPanel' = IF panel = "mounted" THEN pos ELSE locPanel
  /\ NoFrame
  /\ UNCHANGED <<faults, app, panel, env, sceneBackground, mode, locApp, geoApp, timerVars,
                 instant, elapsed, sunDir, baseQuat, panelRef, lightingVars, obsPanel>>

\* the armed interval was set by a run of the update effect with another lat
\* or lon than SolarPanelModel now renders with
PanelDepsChanged == \E tm \in timersPanel : tm.id = idPanel /\ tm.loc # locPanel

\* after the render that follows setLoc, the update effect's cleanup
\* (clearInterval(id)) and then the effect again: update() with the source's
\* answer a, setInterval; the setup effect does not run
PanelRerun(a) ==
  /\ panel = "mounted" /\ PanelDepsChanged
  /\ PanelUpdate(locPanel, a)
  /\ timersPanel' = setInterval(clearInterval(timersPanel, idPanel), idPanel + 1, locPanel)
  /\ idPanel' = idPanel + 1
  /\ baseQuat' = baseQuatOnLocationChange(baseQuat, quaternion)
  /\ NoFrame
  /\ UNCHANGED <<app, panel, env, sceneBackground, mode, geo, timersApp, idApp,
                 instant, elapsed, panelRef, lightingVars>>

PanelLocationEffects ==
  PanelRerun(SunCalcGetPosition(instant, locPanel)) /\ UNCHANGED faults

\* SolarPanelModel's getCurrentPosition fails or times out
PanelGeoError ==
  /\ geoPanel = "pending"
  /\ geoPanel' = "done"
  /\ NoFrame
  /\ UNCHANGED <<faults, app, panel, env, sceneBackground, mode, locApp, locPanel, geoApp,
                 timerVars, instant, elapsed, sunDir, baseQuat, panelRef, lightingVars,
                 obsPanel>>

\* ------------------------------------------------------------------ useFrame
\* a frame that reads the direction the ref was constructed with
ReadSunDirInitial(cached) == <<0, Fine, 0>>

\* const dir = sunDir.current: the frame reads the cached direction as it is
ReadSunDir(cached) == cached

\* a frame that slews toward the demo orientation as tracking does
FrameQuatSlew(m, dir, base, q, t) ==
  IF m = "spin"
  THEN rotateTowards(q, DemoOrientationOf(base, t), MaxStep)
  ELSE rotateTowards(q, TargetOf(base, dir), MaxStep)

\* the orientation a frame leaves, from what the callback reads
FrameQuat(m, dir, base, q, t) ==
  IF m = "spin"
  THEN DemoOrientationOf(base, t)
  ELSE rotateTowards(q, TargetOf(base, dir), MaxStep)

\* the render loop calls the frame callback of a rendered SolarPanelModel,
\* whether or not its effects and onCreated have run
FrameRuns ==
  panel \in {"rendered", "mounted"} /\ nFrames < MaxFrames

\* the clock readings a frame may see: the clock has advanced since the last frame
Readings == {elapsed + d : d \in ClockSteps} \cap 0..MaxElapsed

\* if (!panelRef.current) return
FrameGuard ==
  /\ FrameRuns /\ panelRef = "undefined"
  /\ NoFrame
  /\ UNCHANGED <<faults, app, panel, env, sceneBackground, mode, geo, timerVars, instant,
                 elapsed, sunDir, baseQuat, panelRef, lightingVars, obsPanel>>

\* mode === "spin": the demo trajectory, copied into the live orientation
FrameSpin ==
  /\ FrameRuns /\ panelRef # "undefined" /\ mode = "spin"
  /\ \E t \in Readings :
       /\ elapsed' = t /\ tFrame' = t
       /\ pitch' = DemoPitch(t) /\ yaw' = DemoYaw(t)
       /\ qFinal' = DemoOrientationOf(baseQuat, t)
       /\ quaternion' = FrameQuat(mode, sunDir, baseQuat, quaternion, t)
  /\ isNight' = FALSE
  /\ qPrev' = quaternion
  /\ qDemo' = quaternion'
  /\ prevFrame' = lastFrame /\ lastFrame' = "spin"
  /\ op' = "frame_spin" /\ nFrames' = nFrames + 1
  /\ UNCHANGED <<faults, app, panel, env, sceneBackground, mode, geo, timerVars, instant,
                 sunDir, baseQuat, panelRef, lightingVars, obsPanel>>

\* the tracking branch at a clock reading from ts: the clamped target from the
\* cached sunDir, approached by MaxStep
TrackingBranch(ts) ==
  /\ panelRef # "undefined" /\ mode # "spin"
  /\ LET dir == ReadSunDir(sunDir)
     IN /\ \E t \in ts :
             /\ elapsed' = t /\ tFrame' = 0
             /\ quaternion' = FrameQuat(mode, dir, baseQuat, quaternion, t)
        /\ yaw' = YawOf(dir) /\ pitch' = PitchOf(dir)
        /\ isNight' = IsNight(dir)
        /\ qFinal' = TargetOf(baseQuat, dir)
  /\ qPrev' = quaternion
  /\ prevFrame' = lastFrame /\ lastFrame' = "sun"
  /\ op' = "frame_sun" /\ nFrames' = nFrames + 1
  /\ UNCHANGED <<faults, app, panel, env, sceneBackground, mode, geo, timerVars, instant,
                 sunDir, baseQuat, panelRef, lightingVars, obsPanel, qDemo>>

\* a frame in tracking mode
FrameSun == FrameRuns /\ TrackingBranch(Readings)

\* ----------------------------------------------------------- the wall clock
\* the wall clock reaches the next observation instant, whatever the
\* components' state: new Date() is the browser's clock
AdvanceInstant ==
  /\ instant < MaxInstant
  /\ instant' = instant + 1
  /\ NoFrame
  /\ UNCHANGED <<faults, app, panel, env, sceneBackground, mode, geo, timerVars, elapsed,
                 sunDir, baseQuat, panelRef, lightingVars, obsPanel>>

\* ---------------------------------------------------------------- teardown
\* App unmounts: the cleanup of its lighting effect runs (clearInterval(id)).
\* The Canvas's root, where SolarPanelModel lives, is torn down in a step of
\* its own after it; until then SolarPanelModel's interval and frames go on
AppUnmount ==
  /\ app = "mounted"
  /\ app' = "unmounted"
  /\ timersApp' = clearInterval(timersApp, idApp)
  /\ idApp' = 0
  /\ NoFrame
  /\ UNCHANGED <<faults, panel, env, sceneBackground, mode, geo, timersPanel, idPanel,
                 instant, elapsed, sunDir, baseQuat, panelRef, lightingVars,
                 obsPanel>>

\* the Canvas's root unmounts: the cleanup of SolarPanelModel's update effect
\* runs (clearInterval(id)) if the effect ran, and the frame callback is
\* unsubscribed
CanvasUnmount ==
  /\ app = "unmounted" /\ panel # "unmounted"
  /\ panel' = "unmounted"
  /\ timersPanel' = IF panel = "mounted" THEN clearInterval(timersPanel, idPanel)
                    ELSE timersPanel
  /\ idPanel' = 0
  /\ NoFrame
  /\ UNCHANGED <<faults, app, env, sceneBackground, mode, geo, timersApp, idApp,
                 instant, elapsed, sunDir, baseQuat, panelRef, lightingVars, obsPanel>>

Next ==
  \/ AppEffects \/ AppTimerTick \/ AppGeoSuccess \/ AppLocationEffects \/ AppGeoError
  \/ CanvasCreated \/ ToggleMode
  \/ PanelRender \/ PanelEffects \/ PanelTimerTick \/ PanelGeoSuccess
  \/ PanelLocationEffects \/ PanelGeoError
  \/ FrameGuard \/ FrameSpin \/ FrameSun
  \/ AdvanceInstant \/ AppUnmount \/ CanvasUnmount

Spec == Init /\ [][Next]_vars

\* ------------------------------------ a source that returns non-finite angles
\* every call of SunCalc.getPosition may return a non-finite angle: App's
\* update and SolarPanelModel's, at mount, on a tick and after a location change
Faulty == faults < MaxFaults /\ faults' = faults + 1

AppEffectsFault == Faulty /\ \E a \in FaultyAngles : AppMount(a)
AppTimerTickFault ==
  Faulty /\ \E tm \in timersApp : \E a \in FaultyAngles : AppTick(tm, a)
AppLocationEffectsFault == Faulty /\ \E a \in FaultyAngles : AppRerun(a)
PanelEffectsFault == Faulty /\ \E a \in FaultyAngles : PanelMount(a)
PanelTimerTickFault ==
  Faulty /\ \E tm \in timersPanel : \E a \in FaultyAngles : PanelTick(tm, a)
PanelLocationEffectsFault == Faulty /\ \E a \in FaultyAngles : PanelRerun(a)

NextFault ==
  \/ Next
  \/ AppEffectsFault \/ AppTimerTickFault \/ AppLocationEffectsFault
  \/ PanelEffectsFault \/ PanelTimerTickFault \/ PanelLocationEffectsFault

SpecFault == Init /\ [][NextFault]_vars

\* ------------------------------------------- tracking with a steady target
\* The session after mount, with the mode switched to tracking, no further
\* tick changing sunDir, and frames that keep firing.
SteadyInstants == 0 .. MaxInstant
StartTimes == {3, 8, 19}

\* orientations the target may have when the steady stretch begins: its rest
\* pose, a demo orientation, or the target of another sun direction
StartOrientations(base) ==
  {base}
    \cup {QFinal(base, DemoPitch(t), DemoYaw(t)) : t \in StartTimes}
    \cup {QFinal(base, TrackingPitch(d), TrackingYaw(d)) :
            d \in {evaluateSunDirection(SunCalcGetPosition(i, l)) :
                     i \in SteadyInstants, l \in Fixes}}

InitTracking ==
  /\ app = "mounted" /\ panel = "mounted"
  /\ geolocation = TRUE /\ hasSolpanel \in BOOLEAN
  /\ mode = "sun"
  /\ locPanel \in Fixes /\ locApp = locPanel
  /\ geoApp = "done" /\ geoPanel = "done"
  /\ idApp = 1 /\ idPanel = 1
  /\ timersApp = setInterval({}, idApp, locApp)
  /\ timersPanel = setInterval({}, idPanel, locPanel)
  /\ instant \in SteadyInstants /\ elapsed = 0
  /\ obsPanel = Obs(locPanel, instant, SunCalcGetPosition(instant, locPanel))
  /\ obsApp = obsPanel
  /\ sunDir = evaluateSunDirection(obsPanel.angles)
  /\ baseQuat = RestPose(hasSolpanel)
  /\ panelRef = getObjectByNameOrRoot(hasSolpanel)
  /\ quaternion \in StartOrientations(baseQuat)
  /\ skyPos = SkyPos(obsApp.angles)
  /\ bgColor = Lighting(obsApp.angles).bgColor
  /\ envPreset = Lighting(obsApp.angles).envPreset
  /\ sunLightIntensity = Lighting(obsApp.angles).sunLightIntensity
  /\ hemiIntensity = Lighting(obsApp.angles).hemiIntensity
  /\ sceneBackground = DayPreset.bgColor
  /\ faults = 0
  /\ op = "other" /\ nFrames = 0
  /\ yaw = 0 /\ pitch = 0 /\ isNight = FALSE /\ qFinal = Identity /\ tFrame = 0
  /\ qPrev = quaternion
  /\ lastFrame = "none" /\ prevFrame = "none" /\ qDemo = Identity

\* a frame in tracking mode, the render clock one step on
SteadyFrame ==
  /\ panel = "mounted" /\ nFrames < MaxSteadyFrames
  /\ TrackingBranch({elapsed + 3})

NextTracking == SteadyFrame

\* a frame fires: SteadyFrame's guard and its count of frames. Under
\* NextTracking a step that counts a frame is a SteadyFrame step, and the
\* callback can run whenever the guard holds.
FrameFires ==
  /\ panel = "mounted" /\ nFrames < MaxSteadyFrames
  /\ panelRef # "undefined" /\ mode # "spin"
  /\ nFrames' = nFrames + 1

\* r3f's render loop calls the frame callback on every animation frame
SpecTracking == InitTracking /\ [][NextTracking]_vars /\ WF_nFrames(FrameFires)

\* ================================================================ claims
FrameWrote == op \in {"frame_spin", "frame_sun"}
StowPitch == clamp(degToRad(5 * 1000), pitchMin, pitchMax)
\* MaxStep in the units angleTo measures in, and the resolution to which the
\* fixed-point rotations give an angle (0.2 milliradian)
MaxStepU == MaxStep * AngleUnit
AngleTol == AngleUnit \div 5
Near(a, b) == Abs(a - b) <= AngleTol
LightingNow == [bgColor |-> bgColor, envPreset |-> envPreset,
                sunLightIntensity |-> sunLightIntensity, hemiIntensity |-> hemiIntensity]

\* C1: a non-finite azimuth or altitude from the sun-position source never
\* reaches the live orientation: after the tick and any number of tracking
\* frames the live orientation is finite.
C1_OrientationStaysFinite == IsFiniteQuat(quaternion)

\* C2: a tracking frame never increases the angular distance to the target,
\* moves the live orientation by at most MaxStep, stays on the arc between the
\* old orientation and the target (the two parts add up to the whole, to the
\* resolution of the angles), and lands exactly on the target, at distance
\* zero, when the remaining distance was at most MaxStep.
C2_TrackingStep ==
  op = "frame_sun" =>
    LET before == angleTo(qPrev, qFinal)
        moved == angleTo(qPrev, quaternion)
        after == angleTo(quaternion, qFinal)
    IN /\ after <= before
       /\ moved <= MaxStepU + AngleTol
       /\ Near(moved + after, before)
       /\ (before <= MaxStepU => quaternion = qFinal /\ after = 0)
       /\ (before > MaxStepU => Near(moved, MaxStepU))

\* a tracking frame that started within MaxStep of the target and reached it
C2_Witness ==
  /\ op = "frame_sun"
  /\ angleTo(qPrev, qFinal) > 0 /\ angleTo(qPrev, qFinal) <= MaxStepU
  /\ quaternion = qFinal

\* C3: in both modes the yaw and pitch a frame builds delta from lie within
\* the mechanical limits.
C3_WithinLimits ==
  FrameWrote => /\ yawMin <= yaw /\ yaw <= yawMax
                /\ pitchMin <= pitch /\ pitch <= pitchMax

\* a tracking frame whose geometric yaw lay outside the yaw travel
C3_Witness ==
  /\ op = "frame_sun"
  /\ yawTarget(sunDir) < yawMin
  /\ yaw = yawMin

\* azimuths and negative altitudes the night path is compared over
NightAzimuths == {-3100, -400, 12, 1200, Pi}
NightAltitudes == {-1, -300, -1570}

\* over that grid the tracking pitch is the stow pitch and the tracking yaw the
\* clamped azimuth
NightGridStowed ==
  \A a \in NightAzimuths : \A h \in NightAltitudes :
    \A dir \in {evaluateSunDirection([azimuth |-> a, altitude |-> h])} :
      /\ TrackingPitch(dir) = StowPitch
      /\ Abs(TrackingYaw(dir) - clamp(WrapAngle(a), yawMin, yawMax)) <= 1

\* C4: with the sun below the horizon a tracking frame uses the stow pitch,
\* whatever the azimuth and however far below the horizon the sun is; the yaw
\* is the clamped geometric yaw.
C4_NightStow ==
  (op = "frame_sun" /\ obsPanel.instant >= 0 /\ obsPanel.angles.altitude < 0) =>
    /\ isNight
    /\ pitch = StowPitch
    /\ yaw = clamp(Atan2(sunDir[1], sunDir[3]), yawMin, yawMax)
    /\ Abs(yaw - clamp(WrapAngle(obsPanel.angles.azimuth), yawMin, yawMax)) <= 1
    /\ NightGridStowed

\* a tracking frame under a night observation
C4_Witness ==
  /\ op = "frame_sun"
  /\ obsPanel.angles.altitude < 0
  /\ pitch = StowPitch /\ pitchTarget(sunDir) < 0

\* C5 as stated: the demo yaw and pitch at t equal those at t + 8 s.
C5_Period8 ==
  op = "frame_spin" =>
    /\ pitch = DemoPitch(tFrame + T * TicksPerSecond)
    /\ yaw = DemoYaw(tFrame + T * TicksPerSecond)

\* C5, amended: the demo pitch has period 8 s; the (yaw, pitch) pair has
\* period 160 s, 20 pitch periods, the yaw running at 0.35 times the pitch's
\* frequency.
C5_PitchPeriod8PairPeriod160 ==
  op = "frame_spin" =>
    /\ pitch = DemoPitch(tFrame + T * TicksPerSecond)
    /\ pitch = DemoPitch(tFrame + 20 * T * TicksPerSecond)
    /\ yaw = DemoYaw(tFrame + 20 * T * TicksPerSecond)

\* a demo frame whose yaw differs from the yaw 8 s later
C5_Witness ==
  /\ op = "frame_spin"
  /\ tFrame > 0
  /\ yaw # DemoYaw(tFrame + T * TicksPerSecond)
  /\ pitch = DemoPitch(tFrame + T * TicksPerSecond)

\* skyPos is 100 times sunDir, to the rounding of the normalisation
SkyMatchesSunDir ==
  \A i \in 1..3 :
    IsFinite(sunDir[i]) /\ Abs(skyPos[i] - DivRound(sunDir[i], Fine \div (100 * Scale))) <= 1000

\* C6: once both geolocation requests have ended and both components have
\* evaluated the sun at the same instant, the cached sunDir and the lighting
\* state come from the same Location and the same SunAngles, and skyPos is
\* 100 times sunDir.
C6_SameObservation ==
  (/\ panel = "mounted" /\ geoApp = "done" /\ geoPanel = "done"
   /\ obsApp.instant = obsPanel.instant) =>
    /\ obsApp.loc = obsPanel.loc
    /\ obsApp.angles = obsPanel.angles
    /\ SkyMatchesSunDir

\* a tracking frame while sunDir and the lighting come from the same SunAngles
SameAnglesFrame ==
  /\ op = "frame_sun"
  /\ obsPanel.instant >= 0 /\ obsApp.instant >= 0
  /\ obsApp.angles = obsPanel.angles

\* C7 as stated: from the same SunAngles the controller takes the night path
\* exactly when the lighting is the night preset.
C7_SharedBoundary ==
  SameAnglesFrame => (isNight <=> LightingNow = NightPreset)

\* C7, amended: from the same SunAngles the night path implies the night
\* preset and the day preset implies the geometric path; the two disagree
\* (night preset, geometric path) exactly for 0 <= altitude <= 0.05 rad.
C7_NightWithinNightPreset ==
  SameAnglesFrame =>
    /\ LightingNow \in {DayPreset, NightPreset}
    /\ (isNight => LightingNow = NightPreset)
    /\ (LightingNow = DayPreset => ~isNight)
    /\ ((~isNight /\ LightingNow = NightPreset)
          <=> (0 <= obsPanel.angles.altitude /\ obsPanel.angles.altitude <= 50))

\* a tracking frame on the geometric path under the night preset
C7_Witness ==
  /\ SameAnglesFrame
  /\ ~isNight /\ LightingNow = NightPreset
  /\ obsPanel.angles.altitude > 0

\* C8: no handler but a frame writes the live orientation, so a mode switch
\* leaves it; the first tracking frame after demo frames starts from the
\* orientation the last demo frame wrote and moves it by at most MaxStep
\* toward the target of the cached sunDir.
C8_NoResetOnSwitch ==
  /\ (op = "other" => quaternion = qPrev)
  /\ (lastFrame = "spin" => quaternion = qDemo)
  /\ (op = "frame_sun" =>
        /\ (prevFrame = "spin" => qPrev = qDemo)
        /\ (prevFrame = "none" => qPrev = baseQuat)
        /\ qFinal = TargetOf(baseQuat, sunDir)
        /\ LET before == angleTo(qPrev, qFinal)
               moved == angleTo(qPrev, quaternion)
           IN /\ Near(moved, Min(MaxStepU, before))
              /\ Near(angleTo(quaternion, qFinal), before - moved))

\* the first tracking frame after a demo frame, far from the target, under an
\* observation made after the session began
C8_Witness ==
  /\ op = "frame_sun" /\ prevFrame = "spin"
  /\ qPrev = qDemo /\ qDemo # baseQuat
  /\ angleTo(qPrev, qFinal) > 2 * MaxStepU
  /\ Near(angleTo(qPrev, quaternion), MaxStepU)
  /\ obsPanel.instant > 0

\* the state the update effect's interval, the frame callback and the mode
\* toggle read and write, but for the live orientation
PanelState ==
  [mode |-> mode, instant |-> instant, elapsed |-> elapsed, sunDir |-> sunDir,
   obsPanel |-> obsPanel, baseQuat |-> baseQuat, panelRef |-> panelRef]

\* the state after the interval tm fires in s; the orientation stays
AfterTick(s, tm) ==
  The({[s EXCEPT !.sunDir = SunDirectionOf(a), !.obsPanel = Obs(tm.loc, s.instant, a)] :
         a \in {SunCalcGetPosition(s.instant, tm.loc)}})

\* the state after a frame at the clock reading t in s, and the orientation
\* the frame leaves from q
AfterFrame(s, t) == IF s.panelRef = "undefined" THEN s ELSE [s EXCEPT !.elapsed = t]
FrameOrientation(s, q, t) ==
  IF s.panelRef = "undefined" THEN q
  ELSE FrameQuat(s.mode, ReadSunDir(s.sunDir), s.baseQuat, q, t)

\* the state after the mode toggle in s; the orientation stays
AfterToggle(s) == [s EXCEPT !.mode = IF s.mode = "sun" THEN "spin" ELSE "sun"]

\* the direction a tick of the armed interval tm would cache now
TickSunDir(tm) == AfterTick(PanelState, tm).sunDir

\* the orientations (timer tick, then frame) and (frame, then timer tick)
\* leave from the current state, for an armed interval tm and a clock reading t
TickThenFrame(tm, t) == FrameOrientation(AfterTick(PanelState, tm), quaternion, t)
FrameThenTick(tm, t) == FrameOrientation(PanelState, quaternion, t)
NextReadings == {elapsed + d : d \in ClockSteps}

\* the clock readings that tell frames apart: all in Demo mode, one in
\* Tracking mode, where a frame does not read the clock
FrameReadings ==
  IF mode = "spin" THEN NextReadings ELSE {CHOOSE t \in NextReadings : TRUE}

\* C9 as stated: the two orders leave live orientations at most MaxStep apart.
C9_WithinOneStep ==
  panel = "mounted" =>
    \A tm \in timersPanel : \A t \in NextReadings :
      angleTo(TickThenFrame(tm, t), FrameThenTick(tm, t)) <= MaxStepU + AngleTol

\* from the current state the two orders of a tick of tm and a frame at t
\* leave the same state, the cached sunDir included, and live orientations
\* that are the same in Demo mode, and in Tracking mode the same when the
\* tick caches the direction already cached and at most 2 * MaxStep apart
\* otherwise
TickFrameCommute(tm, t) ==
  \A ticked \in {AfterTick(PanelState, tm)} :
    /\ AfterFrame(ticked, t) = AfterTick(AfterFrame(PanelState, t), tm)
    /\ AfterFrame(ticked, t).sunDir = ticked.sunDir
    /\ mode = "spin" =>
         FrameOrientation(ticked, quaternion, t) = FrameThenTick(tm, t)
    /\ mode # "spin" =>
         \/ [ticked EXCEPT !.obsPanel = obsPanel] = PanelState
         \/ angleTo(FrameOrientation(ticked, quaternion, t), FrameThenTick(tm, t))
              <= 2 * MaxStepU + AngleTol

\* from the current state the two orders of a tick of tm and the mode toggle
\* leave the same state
TickToggleCommute(tm) ==
  AfterToggle(AfterTick(PanelState, tm)) = AfterTick(AfterToggle(PanelState), tm)

\* a step that is a frame writing the live orientation: only such a frame
\* counts itself in nFrames
FrameStep == nFrames' = nFrames + 1

\* a step of SolarPanelModel's interval, of the mode toggle or of a frame
\* (one that writes, or one the guard returns from) changes the state and the
\* orientation as AfterTick, AfterToggle, AfterFrame and FrameOrientation say
StepsAsComposed ==
  /\ (UNCHANGED <<app, panel, mode, timerVars, instant, nFrames>> /\ PanelTimerTick) =>
       /\ \E tm \in timersPanel : PanelState' = AfterTick(PanelState, tm)
       /\ quaternion' = quaternion
  /\ ToggleMode => PanelState' = AfterToggle(PanelState) /\ quaternion' = quaternion
  /\ (FrameStep \/ FrameGuard) =>
       /\ PanelState' = AfterFrame(PanelState, elapsed')
       /\ quaternion' = FrameOrientation(PanelState, quaternion, elapsed')

\* C9, amended: from every reachable state with an armed interval, (timer
\* tick, then frame) and (frame, then timer tick) leave the same cached sunDir
\* and live orientations at most 2 * MaxStep apart, equal in Demo mode at every
\* clock reading, and equal in Tracking mode when the tick caches the
\* direction already cached; (timer tick, then mode switch) and (mode switch,
\* then timer tick) leave identical state; the ticks, frames and mode
\* switches of the session are these compositions' steps.
C9_WithinTwoSteps ==
  /\ [](panel = "mounted" =>
          \A tm \in timersPanel :
            /\ TickToggleCommute(tm)
            /\ \A t \in FrameReadings : TickFrameCommute(tm, t))
  /\ [][StepsAsComposed]_vars

\* a tracking state where the tick moves the target to the other side of the panel
C9_Witness ==
  /\ panel = "mounted" /\ mode = "sun" /\ nFrames < MaxFrames
  /\ \A tm \in timersPanel : TickSunDir(tm) # sunDir
  /\ \E tm \in timersPanel : \E t \in NextReadings :
       angleTo(TickThenFrame(tm, t), FrameThenTick(tm, t)) > MaxStepU + AngleTol

\* each update effect has at most one interval armed, the one its cleanup
\* holds, closed over the location of the effect's latest evaluation; an
\* effect that has not run or whose cleanup has run has none
OneTimerPerOwner ==
  /\ Cardinality(timersApp) <= 1 /\ Cardinality(timersPanel) <= 1
  /\ \A tm \in timersApp : tm.id = idApp /\ tm.loc = obsApp.loc
  /\ \A tm \in timersPanel : tm.id = idPanel /\ tm.loc = obsPanel.loc
  /\ (app = "mounted") = (timersApp # {})
  /\ (panel = "mounted") = (timersPanel # {})

\* once its owner is torn down nothing writes the lighting state, or the
\* cached sunDir
NoWriteAfterTeardown ==
  /\ app = "unmounted" => UNCHANGED lightingVars
  /\ panel = "unmounted" => UNCHANGED <<sunDir, obsPanel>>

\* C10: while its owner is mounted each update effect has exactly one
\* interval armed, also across a location change; after the owner's teardown
\* (App's, and then that of the Canvas's root with SolarPanelModel) the owner
\* has none armed, and no timer callback writes what the owner wrote.
C10_TimersOwned == []OneTimerPerOwner /\ [][NoWriteAfterTeardown]_vars

\* a session torn down, App and then the Canvas's root, after both effects
\* re-armed on a geolocation fix
C10_Witness ==
  /\ app = "unmounted" /\ panel = "unmounted"
  /\ locApp = OtherLoc /\ locPanel = OtherLoc
  /\ obsApp.loc = OtherLoc /\ obsPanel.loc = OtherLoc
  /\ timersApp = {} /\ timersPanel = {}

\* C11: a frame in either mode leaves the cached sunDir (and the observation
\* it came from) unchanged, and a tracking frame computes its yaw, pitch and
\* target from the direction of the most recent update's observation.
C11_FrameReadsLatestSunDir ==
  [][FrameStep =>
       /\ sunDir' = sunDir /\ obsPanel' = obsPanel
       /\ sunDir = evaluateSunDirection(obsPanel.angles)
       /\ op' = "frame_sun" =>
            LET latest == evaluateSunDirection(obsPanel.angles)
            IN /\ yaw' = TrackingYaw(latest) /\ pitch' = TrackingPitch(latest)
               /\ qFinal' = QFinal(baseQuat, TrackingPitch(latest), TrackingYaw(latest))
               /\ quaternion' = rotateTowards(quaternion, qFinal', MaxStep)]_vars

\* a tracking frame after a tick replaced the direction cached at mount
C11_Witness ==
  /\ op = "frame_sun"
  /\ obsPanel.instant > 0
  /\ sunDir = evaluateSunDirection(obsPanel.angles)
  /\ sunDir # evaluateSunDirection(SunCalcGetPosition(0, DefaultLoc))
  /\ yaw = TrackingYaw(sunDir)

\* one hook's request is issued only by its component's mount
AppRequestOnlyAtMount ==
  (geoApp' = "pending" /\ geoApp # "pending") =>
     geoApp = "idle" /\ app = "rendered" /\ app' = "mounted"
PanelRequestOnlyAtMount ==
  (geoPanel' = "pending" /\ geoPanel # "pending") =>
     geoPanel = "idle" /\ panel = "rendered" /\ panel' = "mounted"

\* C12: each hook's location starts at the default; without a provider no
\* request is ever pending and the location stays the default; a request is
\* issued only at mount and never again once it has ended; the location
\* changes only when a pending request ends with a fix, hence at most once.
C12_GeolocationOneShot ==
  /\ [](/\ geoApp \in {"idle", "pending"} => locApp = DefaultLoc
        /\ geoPanel \in {"idle", "pending"} => locPanel = DefaultLoc
        /\ ~geolocation => /\ geoApp = "idle" /\ geoPanel = "idle"
                           /\ locApp = DefaultLoc /\ locPanel = DefaultLoc)
  /\ [][/\ AppRequestOnlyAtMount /\ PanelRequestOnlyAtMount
        /\ geoApp = "done" => geoApp' = "done" /\ locApp' = locApp
        /\ geoPanel = "done" => geoPanel' = "done" /\ locPanel' = locPanel
        /\ locApp' # locApp =>
             /\ geoApp = "pending" /\ geoApp' = "done"
             /\ locApp = DefaultLoc /\ locApp' \in Fixes
        /\ locPanel' # locPanel =>
             /\ geoPanel = "pending" /\ geoPanel' = "done"
             /\ locPanel = DefaultLoc /\ locPanel' \in Fixes]_vars

\* one hook's request ended with a fix and its location changed; the other
\* hook's request failed, its location is still the default and a later
\* update ran with it
C12_Witness ==
  /\ geolocation
  /\ geoApp = "done" /\ locApp = OtherLoc
  /\ geoPanel = "done" /\ locPanel = DefaultLoc
  /\ obsPanel.instant > 0 /\ obsPanel.loc = DefaultLoc

\* C13: once the lighting has been evaluated, the four derived fields are
\* together exactly the day preset when the altitude of the last evaluation
\* is above 0.05 rad and exactly the night preset otherwise.
C13_PresetWhole ==
  obsApp.instant >= 0 =>
    /\ LightingNow \in {DayPreset, NightPreset}
    /\ obsApp.angles.altitude > 50 => LightingNow = DayPreset
    /\ obsApp.angles.altitude <= 50 => LightingNow = NightPreset

\* an evaluation at a later instant chose the night preset after the
\* evaluation at mount had chosen the day preset
C13_Witness ==
  /\ obsApp.instant > 0 /\ obsApp.loc = DefaultLoc
  /\ Lighting(SunCalcGetPosition(0, DefaultLoc)) = DayPreset
  /\ obsApp.angles.altitude <= 50
  /\ LightingNow = NightPreset

\* C14: while the rotation target is unresolved no frame has written and the
\* orientation is the rest pose; once SolarPanelModel's effects have run the
\* target is "solpanel" when the geometry has it and the root otherwise; and
\* every frame that writes, with or without "solpanel", writes the frame's
\* orientation to the resolved target.
C14_TargetResolvedFirst ==
  /\ panelRef = "undefined" =>
       /\ nFrames = 0 /\ lastFrame = "none" /\ ~FrameWrote
       /\ quaternion = RestPose(hasSolpanel)
  /\ panel = "mounted" => panelRef # "undefined"
  /\ panelRef # "undefined" =>
       panelRef = IF hasSolpanel THEN "solpanel" ELSE "root"
  /\ FrameWrote =>
       /\ panelRef # "undefined"
       /\ IsFiniteQuat(quaternion)
       /\ op = "frame_spin" => quaternion = QFinal(baseQuat, pitch, yaw)
       /\ op = "frame_sun" => quaternion = rotateTowards(qPrev, qFinal, MaxStep)

\* the geometry has no "solpanel": the target is the root, and a second
\* frame has rotated it away from the rest pose
C14_Witness ==
  /\ ~hasSolpanel /\ panelRef = "root"
  /\ FrameWrote /\ nFrames > 1
  /\ quaternion # qPrev /\ quaternion # RestPose(hasSolpanel)

\* C15: once the Canvas was created showing a preset's tone, after every
\* lighting evaluation the scene background is the tone of the preset the
\* evaluation selected.
C15_SurfaceShowsLighting ==
  (/\ sceneBackground \in {DayPreset.bgColor, NightPreset.bgColor}
   /\ obsApp.instant >= 0) =>
     sceneBackground = Lighting(obsApp.angles).bgColor

\* sun directions and previous orientations a second session may hold
OtherSunDirs == {<<0, Fine, 0>>, sunDir, evaluateSunDirection(SunCalcGetPosition(1, OtherLoc))}
OtherOrientations == {Identity, SolpanelRest, qPrev, qDemo, qFinal}

\* C16: the orientation a demo frame leaves is the demo orientation of the
\* frame's elapsed time on the base, and a demo frame with the same base and
\* elapsed time leaves the same orientation whatever cached sunDir and
\* previous orientation it starts from (no location enters the frame).
C16_DemoFunctionOfTimeAndBase ==
  op = "frame_spin" =>
    /\ quaternion = QFinal(baseQuat, DemoPitch(tFrame), DemoYaw(tFrame))
    /\ \A dir \in OtherSunDirs : \A q \in OtherOrientations :
         FrameQuat("spin", dir, baseQuat, q, tFrame) = quaternion

\* a demo frame in a session with a geolocation fix, a sun direction other
\* than the initial one, and a previous orientation that was not the base
C16_Witness ==
  /\ op = "frame_spin"
  /\ locPanel = OtherLoc /\ obsPanel.loc = OtherLoc
  /\ sunDir # <<0, Fine, 0>>
  /\ prevFrame = "sun" /\ qPrev # baseQuat /\ qPrev # quaternion

\* C17: baseQuat is the identity until the rotation target is resolved and
\* from then on the rest pose of the target, whatever frames, ticks, mode
\* switches and geolocation fixes have run since.
C17_BaseCapturedOnce ==
  baseQuat = IF panelRef = "undefined" THEN Identity ELSE RestPose(hasSolpanel)

\* after demo and tracking frames had rotated the target away from its rest
\* pose, a geolocation fix changed the location and a later handler ran
C17_Witness ==
  /\ hasSolpanel /\ baseQuat = SolpanelRest
  /\ prevFrame = "spin" /\ lastFrame = "sun"
  /\ locPanel = OtherLoc /\ obsPanel.loc = OtherLoc
  /\ op = "other" /\ qPrev # baseQuat /\ quaternion # baseQuat

\* the clamped target orientation of the cached sunDir
SteadyTarget == QFinal(baseQuat, PitchOf(sunDir), YawOf(sunDir))

\* ceil(pi / 0.02)
FramesToConverge == (PiQ + MaxStepU - 1) \div MaxStepU

\* C18: with the mode tracking, sunDir steady and frames firing, the live
\* orientation eventually equals the clamped target and stays equal; it is
\* equal after at most ceil(pi / 0.02) frames, and a frame that starts on the
\* target leaves it there.
C18_TrackingConverges ==
  /\ <>[](quaternion = SteadyTarget)
  /\ [](nFrames >= FramesToConverge => quaternion = SteadyTarget)
  /\ [][quaternion = SteadyTarget => quaternion' = SteadyTarget]_vars

\* a run that needed more than 150 frames to reach the target, and a frame
\* after it that stayed there
C18_Witness ==
  /\ op = "frame_sun" /\ nFrames > 150
  /\ qPrev = SteadyTarget /\ quaternion = SteadyTarget
  /\ angleTo(RestPose(hasSolpanel), quaternion) > MaxStepU
====
